---------------------------- MODULE Spec2Model ----------------------------
(***************************************************************************)
(* Model of the crawl-and-index engine of SVN-Search                       *)
(* (src/libs/svn_crawler.py): the worker WorkerScrapeRepo (work,           *)
(* generate_database, svn_list, fix_output, populate_db) and the part of   *)
(* the dialog SVNScrapper that cancels it (stop_thread).                   *)
(*                                                                         *)
(* A Python str is a sequence of one-character strings, so that split,     *)
(* find, replace and the prefix keys are computed as the code computes     *)
(* them.  Str("r/a/") is written <<"r", "/", "a", "/">>.                   *)
(***************************************************************************)
EXTENDS Integers, Sequences, FiniteSets, TLC

(***************************************************************************)
(* Bounds of the model.                                                    *)
(***************************************************************************)
\* longest sequence of batches folded in SpecFold
MaxBatches == 3
\* most paths folded in SpecFold, over all its batches
MaxFolded == 4
\* largest max_tries the worker is constructed with
MaxTriesBound == 2
\* cap on the retry counter when the retry loop has no reachable exit
MaxRetryCap == 3
\* largest max_level the worker is constructed with
MaxLevelBound == 2

(***************************************************************************)
(* Python str and list primitives.                                         *)
(***************************************************************************)
SLASH == "/"

\* s[-1]
LastChar(s) == s[Len(s)]

\* s[:-1] of a list (drops the last element)
DropLast(s) == SubSeq(s, 1, Len(s) - 1)

RECURSIVE SplitFrom(_, _, _)
\* the segments of s[i..], cur being the segment read so far
SplitFrom(s, i, cur) ==
  IF i > Len(s) THEN <<cur>>
  ELSE IF s[i] = SLASH THEN <<cur>> \o SplitFrom(s, i + 1, <<>>)
  ELSE SplitFrom(s, i + 1, Append(cur, s[i]))

\* s.split('/')
SplitSlash(s) == SplitFrom(s, 1, <<>>)

\* path[-1] == "/"
EndsWithSlash(path) == LastChar(path) = SLASH

RECURSIVE FindFrom(_, _, _)
\* the least 0-based index k >= i at which sub occurs in s, or -1
FindFrom(s, sub, i) ==
  IF i + Len(sub) > Len(s) THEN -1
  ELSE IF SubSeq(s, i + 1, i + Len(sub)) = sub THEN i
  ELSE FindFrom(s, sub, i + 1)

\* s.find(sub)
Find(s, sub) == FindFrom(s, sub, 0)

\* s[:k], k possibly negative
SliceTo(s, k) ==
  IF k >= 0 THEN SubSeq(s, 1, IF k > Len(s) THEN Len(s) ELSE k)
  ELSE SubSeq(s, 1, Len(s) + k)

RECURSIVE RemoveAll(_, _)
\* s.replace(old, ""): every non-overlapping occurrence of old, left to right
RemoveAll(s, old) ==
  IF old = <<>> \/ Len(s) < Len(old) THEN s
  ELSE IF SubSeq(s, 1, Len(old)) = old
       THEN RemoveAll(SubSeq(s, Len(old) + 1, Len(s)), old)
       ELSE <<s[1]>> \o RemoveAll(Tail(s), old)

CR == "\r"
LF == "\n"

RECURSIVE SplitCRLFFrom(_, _, _)
SplitCRLFFrom(s, i, cur) ==
  IF i > Len(s) THEN <<cur>>
  ELSE IF i < Len(s) /\ s[i] = CR /\ s[i + 1] = LF
       THEN <<cur>> \o SplitCRLFFrom(s, i + 2, <<>>)
       ELSE SplitCRLFFrom(s, i + 1, Append(cur, s[i]))

\* s.split("\r\n")
SplitCRLF(s) == SplitCRLFFrom(s, 1, <<>>)

\* the concatenation of a list of str
RECURSIVE Concat(_)
Concat(ss) == IF ss = <<>> THEN <<>> ELSE Head(ss) \o Concat(Tail(ss))

\* s[::-1]
Reverse(s) == [i \in 1..Len(s) |-> s[Len(s) + 1 - i]]

(***************************************************************************)
(* os_sorted (natsort): runs of digits compare by value, other characters  *)
(* by their rank, case ignored.  The sort is stable.                       *)
(***************************************************************************)
Digits == {"0", "1", "2", "3", "4", "5", "6", "7", "8", "9"}

DigitVal(c) ==
  CASE c = "0" -> 0 [] c = "1" -> 1 [] c = "2" -> 2 [] c = "3" -> 3 [] c = "4" -> 4
    [] c = "5" -> 5 [] c = "6" -> 6 [] c = "7" -> 7 [] c = "8" -> 8 [] c = "9" -> 9

\* the characters the model's names are made of, in collating order
Alphabet == <<CR, LF, "/", "0", "1", "2", "3", "4", "5", "6", "7", "8", "9",
              "a", "b", "c", "d", "f", "h", "r">>

CharRank(c) == CHOOSE i \in 1..Len(Alphabet) : Alphabet[i] = c

RECURSIVE DigitRunLen(_, _)
\* the length of the run of digits that starts s[i]
DigitRunLen(s, i) ==
  IF i <= Len(s) /\ s[i] \in Digits THEN 1 + DigitRunLen(s, i + 1) ELSE 0

RECURSIVE NumVal(_)
NumVal(ds) == IF ds = <<>> THEN 0 ELSE 10 * NumVal(DropLast(ds)) + DigitVal(LastChar(ds))

RECURSIVE NatLess(_, _)
\* s sorts strictly before t
NatLess(s, t) ==
  IF t = <<>> THEN FALSE
  ELSE IF s = <<>> THEN TRUE
  ELSE IF s[1] \in Digits /\ t[1] \in Digits
       THEN LET ns == DigitRunLen(s, 1)
                nt == DigitRunLen(t, 1)
                vs == NumVal(SubSeq(s, 1, ns))
                vt == NumVal(SubSeq(t, 1, nt))
            IN IF vs # vt THEN vs < vt
               ELSE NatLess(SubSeq(s, ns + 1, Len(s)), SubSeq(t, nt + 1, Len(t)))
  ELSE IF s[1] # t[1] THEN CharRank(s[1]) < CharRank(t[1])
  ELSE NatLess(Tail(s), Tail(t))

RECURSIVE InsertSorted(_, _)
InsertSorted(sorted, x) ==
  IF sorted = <<>> THEN <<x>>
  ELSE IF NatLess(x, Head(sorted)) THEN <<x>> \o sorted
  ELSE <<Head(sorted)>> \o InsertSorted(Tail(sorted), x)

RECURSIVE OsSorted(_)
\* os_sorted(paths)
OsSorted(paths) ==
  IF paths = <<>> THEN <<>>
  ELSE InsertSorted(OsSorted(DropLast(paths)), LastChar(paths))

(***************************************************************************)
(* id_mapping: a Python dict, which keeps insertion order, as the sequence *)
(* of its items [key, id, parent, isfile].                                 *)
(***************************************************************************)
\* current_path in id_mapping
InMapping(id_mapping, key) == \E i \in 1..Len(id_mapping) : id_mapping[i].key = key

\* id_mapping[current_path]
Lookup(id_mapping, key) ==
  id_mapping[CHOOSE i \in 1..Len(id_mapping) : id_mapping[i].key = key]

FirstIdAlwaysOne(id_mapping) == 1

\* lines 250-253: the id the next insert of this call gets
FirstId(id_mapping) ==
  IF id_mapping # <<>> THEN id_mapping[Len(id_mapping)].id + 1 ELSE 1

\* lines 258-263: the parts of a path
PathParts(path) ==
  IF EndsWithSlash(path) THEN DropLast(SplitSlash(path)) ELSE SplitSlash(path)

\* lines 258-263: isfile of a path
IsFileOf(path) == IF EndsWithSlash(path) THEN 0 ELSE 1

\* line 273: the isfile recorded for a newly created part of a path whose
\* own isfile is `isfile` (the code uses the path's isfile for every part)
SegmentIsFile(isfile, isLastPart) == isfile

NeedsInsertAlways(id_mapping, current_path) == TRUE

\* line 272: whether the part is created
NeedsInsert(id_mapping, current_path) == ~InMapping(id_mapping, current_path)

NextParentStale(id_mapping, current_path, parent_id) == parent_id

\* line 277: the parent id of the next part
NextParent(id_mapping, current_path, parent_id) == Lookup(id_mapping, current_path).id

RecordForgetsOthers(mapping, entry) == <<entry>>

\* line 273: id_mapping[current_path] = [current_id, parent_id, isfile], for
\* a key that is not in the dict
Record(mapping, entry) == Append(mapping, entry)

\* lines 269-278, one pass of the inner loop.  st is the state of the call:
\* mapping, rows (the inserts executed, with the prefix key of each),
\* current_id, parent_id, parent_path, raised, and budget: the number of
\* cursor.execute calls that still succeed (-1: all of them).
FoldPart(st, part, isfile, isLastPart) ==
  IF st.raised THEN st
  ELSE
    LET current_path == st.parent_path \o part
        create == NeedsInsert(st.mapping, current_path)
        m1 == IF create
              THEN Record(st.mapping, [key |-> current_path, id |-> st.current_id,
                                       parent |-> st.parent_id,
                                       isfile |-> SegmentIsFile(isfile, isLastPart)])
              ELSE st.mapping
        row == [key |-> current_path, id |-> st.current_id, parentid |-> st.parent_id,
                isfile |-> SegmentIsFile(isfile, isLastPart), value |-> part]
    IN IF create /\ st.budget = 0
       THEN [st EXCEPT !.mapping = m1, !.raised = TRUE]
       ELSE [st EXCEPT !.mapping = m1,
                       !.rows = IF create THEN Append(@, row) ELSE @,
                       !.current_id = IF create THEN @ + 1 ELSE @,
                       !.budget = IF create /\ @ > 0 THEN @ - 1 ELSE @,
                       !.parent_id = NextParent(m1, current_path, st.parent_id),
                       !.parent_path = current_path \o <<SLASH>>]

RECURSIVE FoldParts(_, _, _, _)
\* lines 269-278: the inner loop over path_parts[i..]
FoldParts(st, parts, i, isfile) ==
  IF i > Len(parts) THEN st
  ELSE FoldParts(FoldPart(st, parts[i], isfile, i = Len(parts)), parts, i + 1, isfile)

\* lines 256-278, one pass of the outer loop
FoldPath(st, path) ==
  IF st.raised THEN st
  ELSE FoldParts([st EXCEPT !.parent_path = <<>>, !.parent_id = -1],
                 PathParts(path), 1, IsFileOf(path))

RECURSIVE FoldPaths(_, _, _)
FoldPaths(st, output, i) ==
  IF i > Len(output) THEN st ELSE FoldPaths(FoldPath(st, output[i]), output, i + 1)

\* populate_db(output, id_mapping, cursor), output a list of non-empty str
PopulateDb(output, id_mapping, budget) ==
  FoldPaths([mapping |-> id_mapping, rows |-> <<>>, current_id |-> FirstId(id_mapping),
             parent_id |-> -1, parent_path |-> <<>>, raised |-> FALSE,
             budget |-> budget],
            output, 1)

(***************************************************************************)
(* fix_output.                                                             *)
(***************************************************************************)
\* root_folder of the configuration ("repo" by default)
RootFolder == <<"r">>

\* lines 82 and 210: url[:url.find(self.root_folder)]
ServerUrl(url) == SliceTo(url, Find(url, RootFolder))

PrefixOfDropsRoot(url) == RemoveAll(url, ServerUrl(url) \o RootFolder \o <<SLASH>>)

\* line 211: url.replace(server_url, "")
PrefixOf(url) == RemoveAll(url, ServerUrl(url))

\* line 216: str(output.decode("latin1"))[:-2].  latin1 maps byte b to the
\* character of code b, so bytes and str share the model's characters.
DecodeAndStrip(output) == SliceTo(output, -2)

\* lines 227-231: folders + files, each os_sorted
FoldersThenFiles(folders, files) == OsSorted(folders) \o OsSorted(files)

\* fix_output(url, output): [raised, kind, items]; raised when a line is
\* empty (path[-1] of "" is an IndexError)
FixOutput(url, output) ==
  IF output = <<>> THEN [raised |-> FALSE, kind |-> "list", items |-> <<>>]
  ELSE
    LET lines == SplitCRLF(DecodeAndStrip(output))
        folders == SelectSeq(lines, LAMBDA l : l # <<>> /\ EndsWithSlash(l))
        files == SelectSeq(lines, LAMBDA l : l # <<>> /\ ~EndsWithSlash(l))
        ordered == FoldersThenFiles(folders, files)
    IN IF \E i \in 1..Len(lines) : lines[i] = <<>>
       THEN [raised |-> TRUE, kind |-> "list", items |-> <<>>]
       ELSE [raised |-> FALSE, kind |-> "list",
             items |-> [i \in 1..Len(ordered) |-> PrefixOf(url) \o ordered[i]]]

(***************************************************************************)
(* svn_list: the classification of the error stream.  err_mssg is modelled *)
(* by the set of error codes that occur in it: the code only tests         *)
(* `"Exxxxxx" in err_mssg`.                                                *)
(***************************************************************************)
ClassifyTransientFirst(err_mssg, first) ==
  IF err_mssg \cap {"E175002", "E730065", "E170013", "E175012", "E120108", "E731001"} # {}
  THEN "none"
  ELSE IF "E160006" \in err_mssg THEN "InvalidRevision"
  ELSE IF "E200009" \in err_mssg THEN "PathNotFound"
  ELSE IF "E170000" \in err_mssg THEN "InvalidUrl"
  ELSE "none"

ClassifyComboAlways(err_mssg, first) ==
  IF "E160006" \in err_mssg THEN "InvalidRevision"
  ELSE IF "E200009" \in err_mssg THEN "PathNotFound"
  ELSE IF "E170000" \in err_mssg THEN "InvalidUrl"
  ELSE IF "E731001" \in err_mssg /\ "E170013" \in err_mssg THEN "FirstCallCombo"
  ELSE "none"

\* lines 159-170: the error raised before any retry, "none" when there is none
Classify(err_mssg, first) ==
  IF "E160006" \in err_mssg THEN "InvalidRevision"
  ELSE IF "E200009" \in err_mssg THEN "PathNotFound"
  ELSE IF "E170000" \in err_mssg THEN "InvalidUrl"
  ELSE IF "E731001" \in err_mssg /\ "E170013" \in err_mssg /\ first THEN "FirstCallCombo"
  ELSE "none"

\* lines 172-173: the condition of the retry loop
IsTransient(err_mssg) ==
  \/ "E175002" \in err_mssg \/ "E730065" \in err_mssg \/ "E170013" \in err_mssg
  \/ "E175012" \in err_mssg \/ "E120108" \in err_mssg \/ "E731001" \in err_mssg

\* max_tries is [kind, val]: an int, or the str of an int (as configparser
\* returns it).  Python's == of an int and a str is False.
RetryLimitReachedLate(tries_count, max_tries) ==
  max_tries.kind = "int" /\ tries_count = max_tries.val + 1

\* line 174: tries_count == self.max_tries
RetryLimitReached(tries_count, max_tries) ==
  max_tries.kind = "int" /\ tries_count = max_tries.val

(***************************************************************************)
(* The remote repository and the svn process (the environment).            *)
(***************************************************************************)
\* self.url, as request_repo_url accepts it: it ends with /<root_folder>/
RepoUrl == <<"h", "/", "r", "/">>

\* remote trees, each the paths below the root in the order of `svn ls -R`
TreeNested == << <<"a", "/">>, <<"a", "/", "b">>, <<"a", "/", "c", "/">>,
                 <<"a", "/", "c", "/", "d">>, <<"f">> >>
TreeFilesOnly == << <<"f", "1", "0">>, <<"f", "2">> >>
TreeEmpty == << >>
\* two sibling folders, the first of them empty
TreeSiblings == << <<"a", "/">>, <<"c", "/">>, <<"c", "/", "d">> >>
\* a folder with a subfolder, before a sibling folder
TreeDeep == << <<"a", "/">>, <<"a", "/", "b", "/">>, <<"c", "/">> >>
Trees == {TreeNested, TreeFilesOnly, TreeEmpty, TreeSiblings, TreeDeep}

IsPrefix(p, s) == Len(p) <= Len(s) /\ SubSeq(s, 1, Len(p)) = p

\* the lines `svn ls [-R] url` prints for a directory of the tree
Listing(tree, url, recursive) ==
  LET dir == SubSeq(url, Len(RepoUrl) + 1, Len(url))
      below == SelectSeq(tree, LAMBDA e : IsPrefix(dir, e) /\ Len(e) > Len(dir))
      rel == [i \in 1..Len(below) |-> SubSeq(below[i], Len(dir) + 1, Len(below[i]))]
  IN IF recursive THEN rel
     ELSE SelectSeq(rel, LAMBDA t : Find(DropLast(t), <<SLASH>>) = -1)

\* the bytes of stdout: every line ends with CR LF
Payload(lines) == Concat([i \in 1..Len(lines) |-> lines[i] \o <<CR, LF>>])

\* the error streams the first attempt of a call may end with
ErrStreams ==
  { {"E160006"}, {"E200009", "E175012"}, {"E170000"}, {"E731001", "E170013"},
    {"E175012"}, {"E170001"} }

\* what communicate() may return for the first attempt of a call: the
\* listing, or an error; of a killed process also any part of the listing
Outcomes(tree, url, recursive, killed) ==
  LET full == Payload(Listing(tree, url, recursive))
  IN {[out |-> full, err |-> {}]}
     \cup {[out |-> <<>>, err |-> e] : e \in ErrStreams}
     \cup (IF killed
           THEN {[out |-> SubSeq(full, 1, n), err |-> {}] : n \in 0..Len(full)}
           ELSE {})

\* what communicate() may return for a retry
RetryOutcomes(tree, url, recursive) ==
  {[out |-> Payload(Listing(tree, url, recursive)), err |-> {}],
   [out |-> <<>>, err |-> {"E175012"}]}

(***************************************************************************)
(* The state.                                                              *)
(***************************************************************************)
VARIABLES
  config,       \* [max_tries, max_level, tree]: the worker's arguments and the remote tree
  pc,           \* the worker's position in work()
  stack,        \* generate_database: stack of [url, level]
  id_mapping,   \* generate_database: id_mapping
  first,        \* generate_database: first
  cur,          \* generate_database: url, level of the item popped last
  tries_count,  \* svn_list: tries_count
  err_mssg,     \* svn_list: err_mssg
  output,       \* svn_list: output (stdout of the last attempt)
  proc,         \* the svn process in flight: [pid, killed], pid 0 when there is none
  nextPid,      \* the pid the next process gets
  pending,      \* rows inserted through the cursor and not committed
  committed,    \* rows of the table repository that are committed
  emitted,      \* the signals the worker has emitted, in order
  interruption, \* QThread.isInterruptionRequested()
  gui,          \* SVNScrapper: [pid, thread_running, finished_okay, finished_on_error, finished_by_user]
  delivered,    \* how many of the emitted signals the dialog's slots have run for
  guipc,        \* the dialog's position: open, stopping, waiting (in stop_thread), closed
  batches,      \* history: per populate_db call, the rows of its whole batch
  folded,       \* history: per populate_db call, the list of paths handed to it
  call,         \* history: the listing call made last; erred: an attempt of some
                \* call of the crawl ended with an error stream
  cancelled,    \* history: requestInterruption() ran before work() ended
  sigterm,      \* history: what the last os.kill of stop_thread was aimed at
                \* ("none": no os.kill yet)
  mainwin       \* MainWindow.create_database: its position, self.repo and the
                \* message shown in the status bar

vars == <<config, pc, stack, id_mapping, first, cur, tries_count, err_mssg, output, proc,
          nextPid, pending, committed, emitted, interruption, gui, delivered, guipc,
          batches, folded, call, cancelled, sigterm, mainwin>>

workerVars == <<stack, id_mapping, first, cur, tries_count, err_mssg, output, proc,
                nextPid, pending, committed, emitted, batches, folded, call>>

guiVars == <<gui, delivered, guipc, sigterm, mainwin>>

NoSigterm == "none"

NoProc == [pid |-> 0, killed |-> FALSE]

NoCall == [url |-> <<>>, recursive |-> FALSE, first |-> FALSE, started |-> 0,
           firstErr |-> {}, cleanAt |-> 0, allTransient |-> TRUE, result |-> "none",
           bound |-> 0, erred |-> FALSE]

Sig(name, arg) == [sig |-> name, arg |-> arg]

TerminalSignals == {"finished", "error_during_task", "user_interrupted"}

\* the max_tries the worker may be constructed with
MaxTriesValues ==
  {[kind |-> "int", val |-> n] : n \in 1..MaxTriesBound}
    \cup {[kind |-> "str", val |-> MaxTriesBound]}

Configs ==
  [max_tries : MaxTriesValues, max_level : 0..MaxLevelBound, tree : Trees]

\* the state when the thread has started and work() is about to run
Init ==
  /\ config \in Configs
  /\ pc = "start"
  /\ stack = <<>>
  /\ id_mapping = <<>>
  /\ first = TRUE
  /\ cur = [url |-> <<>>, level |-> 0]
  /\ tries_count = 0
  /\ err_mssg = {}
  /\ output = <<>>
  /\ proc = NoProc
  /\ nextPid = 1
  /\ pending = <<>>
  /\ committed = <<>>
  /\ emitted = <<>>
  /\ interruption = FALSE
  /\ gui = [pid |-> 0, thread_running |-> "None", finished_okay |-> FALSE,
            finished_on_error |-> FALSE, finished_by_user |-> FALSE]
  /\ delivered = 0
  /\ guipc = "open"
  /\ batches = <<>>
  /\ folded = <<>>
  /\ call = NoCall
  /\ cancelled = FALSE
  /\ sigterm = NoSigterm
  /\ mainwin = [pc |-> "exec", repo |-> "old", message |-> <<>>]

(***************************************************************************)
(* The worker: work(), generate_database(), svn_list().                    *)
(***************************************************************************)
AbandonConnectionCommits(rows, uncommitted) == rows \o uncommitted

\* An exception leaves generate_database without commit() or close(): the
\* connection is dropped with its transaction open and sqlite rolls it back.
\* The rows of that transaction stay in `pending` and are never committed.
AbandonConnection(rows, uncommitted) == rows

CommitDropsRows(rows, uncommitted) == rows

\* conn.commit(), lines 112 and 114
Commit(rows, uncommitted) == rows \o uncommitted

RaiseSwallowed(kind, em, rows, c) ==
  /\ pc' = "done"
  /\ emitted' = em \o <<Sig("broadcast_thread_status", "False")>>
  /\ committed' = AbandonConnection(committed, rows)
  /\ pending' = rows
  /\ proc' = NoProc
  /\ call' = c

RaiseSkipsDirectory(kind, em, rows, c) ==
  /\ pc' = "loop"
  /\ emitted' = em
  /\ committed' = AbandonConnection(committed, rows)
  /\ pending' = rows
  /\ proc' = NoProc
  /\ call' = c

\* lines 58-61 and 67-68: an exception of kind `kind` reaches work(); em is
\* what was emitted before it, rows what the cursor inserted and did not
\* commit, c the history of the call
Raise(kind, em, rows, c) ==
  /\ pc' = "done"
  /\ emitted' = em \o <<Sig("error_during_task", kind), Sig("broadcast_thread_status", "False")>>
  /\ committed' = AbandonConnection(committed, rows)
  /\ pending' = rows
  /\ proc' = NoProc
  /\ call' = c

\* lines 55-57 and 82-90
WorkBegin ==
  /\ pc = "start"
  /\ pc' = "loop"
  /\ emitted' = Append(emitted, Sig("broadcast_thread_status", "True"))
  /\ stack' = <<[url |-> RepoUrl, level |-> 0]>>
  /\ id_mapping' = <<>>
  /\ first' = TRUE
  /\ UNCHANGED <<config, cur, tries_count, err_mssg, output, proc, nextPid, pending,
                 committed, interruption, batches, folded, call, cancelled>>
  /\ UNCHANGED guiVars

IsRecursiveLate(level, max_level) == level > max_level

\* lines 95-98: whether the listing is recursive
IsRecursive(level, max_level) == ~(level < max_level)

ReportNothing(url) == <<>>

\* line 93: self.add_item_list.emit(url)
Report(url) == <<Sig("add_item_list", url)>>

PidBroadcastStale(pid) == <<Sig("broadcast_pid", 1)>>

\* lines 140-141 and 185-186: pid = process.pid; self.broadcast_pid.emit(pid)
PidBroadcast(pid) == <<Sig("broadcast_pid", pid)>>

LoopConditionIgnoresCancel(stk, interrupted) == stk # <<>>

\* line 91: the condition of the while loop
LoopCondition(stk, interrupted) == stk # <<>> /\ ~interrupted

\* lines 91-98 and 131-143: the loop goes on, pops an item, reports it and
\* starts the svn process of its listing
PopAndList ==
  /\ pc = "loop"
  /\ LoopCondition(stack, interruption)
  /\ LET item == stack[Len(stack)]
     IN /\ stack' = DropLast(stack)
        /\ cur' = item
        /\ emitted' = emitted \o Report(item.url) \o PidBroadcast(nextPid)
        /\ call' = [NoCall EXCEPT !.url = item.url,
                                  !.recursive = IsRecursive(item.level, config.max_level),
                                  !.first = first, !.started = 1, !.result = "pending",
                                  !.erred = call.erred]
  /\ proc' = [pid |-> nextPid, killed |-> FALSE]
  /\ nextPid' = nextPid + 1
  /\ pc' = "communicate"
  /\ UNCHANGED <<config, id_mapping, first, tries_count, err_mssg, output, pending,
                 committed, interruption, batches, folded, cancelled>>
  /\ UNCHANGED guiVars

\* lines 91 and 114-116: the loop ends
LoopExit ==
  /\ pc = "loop"
  /\ ~LoopCondition(stack, interruption)
  /\ committed' = Commit(committed, pending)
  /\ pending' = <<>>
  /\ pc' = "epilogue"
  /\ UNCHANGED <<config, stack, id_mapping, first, cur, tries_count, err_mssg, output,
                 proc, nextPid, emitted, interruption, batches, folded, call, cancelled>>
  /\ UNCHANGED guiVars

TerminalAlwaysFinished(interrupted) == "finished"

\* lines 63-66: the signal work() ends with when nothing was raised
TerminalSignal(interrupted) == IF interrupted THEN "user_interrupted" ELSE "finished"

\* lines 62-68
WorkEnd ==
  /\ pc = "epilogue"
  /\ pc' = "done"
  /\ emitted' = emitted \o <<Sig(TerminalSignal(interruption), "none"),
                             Sig("broadcast_thread_status", "False")>>
  /\ UNCHANGED <<config, stack, id_mapping, first, cur, tries_count, err_mssg, output,
                 proc, nextPid, pending, committed, interruption, batches, folded, call, cancelled>>
  /\ UNCHANGED guiVars

\* line 178: the text reported before a retry
RetryNotice == <<"Encountered connection problems. Trying again in 2min.">>

\* line 175: the bound the RetryExhausted message names ("%s" % self.max_tries)
ExhaustedBound(max_tries) == max_tries.val

\* lines 174-188, one pass of the retry loop's body: RetryExhausted, or the
\* next attempt is started.  c is the history of the call.
RetryStep(tc, c) ==
  IF RetryLimitReached(tc, config.max_tries)
  THEN /\ Raise("RetryExhausted", emitted, <<>>,
                [c EXCEPT !.result = "RetryExhausted",
                          !.bound = ExhaustedBound(config.max_tries)])
       /\ tries_count' = tc
       /\ nextPid' = nextPid
  ELSE /\ tc < MaxRetryCap
       /\ tries_count' = tc + 1
       /\ emitted' = emitted \o <<Sig("add_item_list", RetryNotice)>> \o PidBroadcast(nextPid)
       /\ proc' = [pid |-> nextPid, killed |-> FALSE]
       /\ nextPid' = nextPid + 1
       /\ pc' = "communicate_retry"
       /\ call' = [c EXCEPT !.started = @ + 1]
       /\ UNCHANGED <<committed, pending>>

PushesSameLevel(items, level, max_level) ==
  IF level < max_level
  THEN LET folders == SelectSeq(Reverse(items), EndsWithSlash)
       IN [i \in 1..Len(folders) |->
             [url |-> ServerUrl(RepoUrl) \o folders[i], level |-> level]]
  ELSE <<>>

PushesAtAnyLevel(items, level, max_level) ==
  LET folders == SelectSeq(Reverse(items), EndsWithSlash)
  IN [i \in 1..Len(folders) |->
        [url |-> ServerUrl(RepoUrl) \o folders[i], level |-> level + 1]]

PushesForward(items, level, max_level) ==
  IF level < max_level
  THEN LET folders == SelectSeq(items, EndsWithSlash)
       IN [i \in 1..Len(folders) |->
             [url |-> ServerUrl(RepoUrl) \o folders[i], level |-> level + 1]]
  ELSE <<>>

\* lines 106-109: the items pushed for a listing
Pushes(items, level, max_level) ==
  IF level < max_level
  THEN LET folders == SelectSeq(Reverse(items), EndsWithSlash)
       IN [i \in 1..Len(folders) |->
             [url |-> ServerUrl(RepoUrl) \o folders[i], level |-> level + 1]]
  ELSE <<>>

\* how many cursor.execute calls of a populate_db call succeed before one
\* raises (-1: all succeed)
SinkBudgets == {-1, 0, 1}

ReturnedEmptyRaises(interrupted, url, out) ==
  IF out = <<>> THEN [raised |-> TRUE, kind |-> "list", items |-> <<>>]
  ELSE IF ~interrupted THEN FixOutput(url, out)
  ELSE [raised |-> FALSE, kind |-> "bytes", items |-> out]

\* lines 190-193: what svn_list returns: the fixed output, or the raw
\* bytes of stdout when an interruption is requested
Returned(interrupted, url, out) ==
  IF ~interrupted THEN FixOutput(url, out)
  ELSE [raised |-> FALSE, kind |-> "bytes", items |-> out]

\* lines 190-193 and 100-112: svn_list returns and generate_database
\* pushes, folds and commits.  Iterating bytes yields ints, and path[-1] of
\* an int is a TypeError.
ReturnStep(out, c) ==
  LET res == Returned(interruption, cur.url, out)
      c2 == [c EXCEPT !.result = "returned"]
  IN IF res.raised
     THEN /\ Raise("IndexError", emitted, <<>>, [c EXCEPT !.result = "IndexError"])
          /\ UNCHANGED <<stack, id_mapping, first, batches, folded>>
     ELSE IF res.items = <<>>
     THEN /\ pc' = "loop"
          /\ first' = FALSE
          /\ proc' = NoProc
          /\ call' = c2
          /\ UNCHANGED <<emitted, committed, pending, stack, id_mapping, batches, folded>>
     ELSE IF res.kind = "bytes"
     THEN /\ Raise("TypeError", emitted, <<>>, c2)
          /\ first' = FALSE
          /\ UNCHANGED <<stack, id_mapping, batches, folded>>
     ELSE \E budget \in SinkBudgets :
            LET f == PopulateDb(res.items, id_mapping, budget)
            IN /\ first' = FALSE
               /\ stack' = stack \o Pushes(res.items, cur.level, config.max_level)
               /\ id_mapping' = f.mapping
               /\ batches' = Append(batches, PopulateDb(res.items, id_mapping, -1).rows)
               /\ folded' = Append(folded, res.items)
               /\ IF f.raised
                  THEN Raise("SinkError", emitted, f.rows, c2)
                  ELSE /\ pc' = "loop"
                       /\ committed' = Commit(committed, pending \o f.rows)
                       /\ pending' = <<>>
                       /\ proc' = NoProc
                       /\ call' = c2
                       /\ emitted' = emitted

\* lines 143-176 and on: communicate() returns for the first attempt
FirstAttemptReturns ==
  /\ pc = "communicate"
  /\ \E o \in Outcomes(config.tree, cur.url, call.recursive, proc.killed) :
       LET c1 == [call EXCEPT !.firstErr = o.err,
                              !.cleanAt = IF o.err = {} THEN 1 ELSE 0,
                              !.allTransient = IsTransient(o.err),
                              !.erred = @ \/ o.err # {}]
           kind == Classify(o.err, first)
       IN /\ output' = o.out
          /\ err_mssg' = o.err
          /\ IF kind # "none"
             THEN /\ Raise(kind, emitted, <<>>, [c1 EXCEPT !.result = kind])
                  /\ tries_count' = 0
                  /\ UNCHANGED <<stack, id_mapping, first, nextPid, batches, folded>>
             ELSE IF IsTransient(o.err)
             THEN /\ RetryStep(0, c1)
                  /\ UNCHANGED <<stack, id_mapping, first, batches, folded>>
             ELSE /\ ReturnStep(o.out, c1)
                  /\ tries_count' = 0
                  /\ nextPid' = nextPid
  /\ UNCHANGED <<config, cur, interruption, cancelled>>
  /\ UNCHANGED guiVars

\* lines 172-188: the err_mssg the loop condition reads after a retry.  The
\* retry rebinds `errors`; err_mssg is computed once, at line 146.
LoopErrMssg(stale, errors) == stale

\* lines 188 and 172-176: communicate() returns for a retry
RetryAttemptReturns ==
  /\ pc = "communicate_retry"
  /\ \E o \in RetryOutcomes(config.tree, cur.url, call.recursive) :
       LET c1 == [call EXCEPT !.cleanAt = IF @ = 0 /\ o.err = {} THEN call.started ELSE @,
                              !.allTransient = @ /\ IsTransient(o.err),
                              !.erred = @ \/ o.err # {}]
           em == LoopErrMssg(err_mssg, o.err)
       IN /\ output' = o.out
          /\ err_mssg' = em
          /\ IF IsTransient(em)
             THEN /\ RetryStep(tries_count, c1)
                  /\ UNCHANGED <<stack, id_mapping, first, batches, folded>>
             ELSE /\ ReturnStep(o.out, c1)
                  /\ UNCHANGED <<tries_count, nextPid>>
  /\ UNCHANGED <<config, cur, interruption, cancelled>>
  /\ UNCHANGED guiVars

(***************************************************************************)
(* The dialog: the slots of the worker's signals, and stop_thread().       *)
(***************************************************************************)
\* lines 331-344 and 394-415: the slot of the next queued signal runs
Deliver ==
  /\ guipc \in {"open", "closed"}
  /\ delivered < Len(emitted)
  /\ delivered' = delivered + 1
  /\ LET s == emitted[delivered + 1]
     IN /\ gui' = CASE s.sig = "broadcast_thread_status" -> [gui EXCEPT !.thread_running = s.arg]
                    [] s.sig = "broadcast_pid" -> [gui EXCEPT !.pid = s.arg]
                    [] s.sig = "finished" -> [gui EXCEPT !.finished_okay = TRUE]
                    [] s.sig = "error_during_task" -> [gui EXCEPT !.finished_on_error = TRUE]
                    [] s.sig = "user_interrupted" -> [gui EXCEPT !.finished_by_user = TRUE]
                    [] OTHER -> gui
        /\ guipc' = IF s.sig \in TerminalSignals THEN "closed" ELSE guipc
  /\ UNCHANGED <<config, pc, interruption, cancelled, sigterm, mainwin>>
  /\ UNCHANGED workerVars

\* line 383: whether stop_thread reaches requestInterruption().  os.kill of
\* a pid that is no process raises OSError, which is caught;
\* os.kill(None, ...) raises TypeError, which is not, and stop_thread ends
\* there.
KillReturns(thread_running, pid) == ~(thread_running = "True" /\ pid = 0)

\* line 383: what os.kill(self.pid, SIGTERM) is aimed at, self.pid being pid
\* (0: None) and running the pid of the svn process that runs (0: none)
KillTarget(pid, running) ==
  IF pid = 0 THEN "unset"
  ELSE IF pid = running THEN "inflight"
  ELSE IF running = 0 THEN "ended" ELSE "superseded"

\* lines 381-385: the user confirms the cancel; when the dialog has seen the
\* thread running, os.kill is called with the pid the dialog holds, and the
\* process of that pid, if it runs, is terminated.  stop_thread blocks in
\* wait() until work() has ended, so a second call finds the flag set.
StopThreadKill ==
  /\ guipc = "open"
  /\ ~interruption
  /\ guipc' = IF KillReturns(gui.thread_running, gui.pid) THEN "stopping" ELSE "open"
  /\ sigterm' = IF gui.thread_running = "True" THEN KillTarget(gui.pid, proc.pid)
                ELSE sigterm
  /\ proc' = IF gui.thread_running = "True" /\ proc.pid # 0 /\ proc.pid = gui.pid
             THEN [proc EXCEPT !.killed = TRUE]
             ELSE proc
  /\ UNCHANGED <<config, pc, stack, id_mapping, first, cur, tries_count, err_mssg, output,
                 nextPid, pending, committed, emitted, interruption, gui, delivered,
                 batches, folded, call, cancelled, mainwin>>

\* line 388: self.thread.requestInterruption(), then quit() and wait()
RequestInterruption ==
  /\ guipc = "stopping"
  /\ interruption' = TRUE
  /\ cancelled' = (pc # "done")
  /\ guipc' = "waiting"
  /\ UNCHANGED <<config, pc, gui, delivered, sigterm, mainwin>>
  /\ UNCHANGED workerVars

\* lines 391-392: wait() returns when work() has ended
WaitReturns ==
  /\ guipc = "waiting"
  /\ pc = "done"
  /\ guipc' = "open"
  /\ UNCHANGED <<config, pc, interruption, gui, delivered, cancelled, sigterm, mainwin>>
  /\ UNCHANGED workerVars

(***************************************************************************)
(* The main window: create_database() after scrapper.exec().               *)
(***************************************************************************)
SuccessMessage == <<"Scraping was successful!">>

\* main.py 365-366: self.repo after the dialog has closed
ActiveRepo(finished_okay, repo) == IF finished_okay THEN "new" ELSE repo

\* main.py 368 and 504: tree_repo_initialise takes element [0] of the rows
\* with parentid -1, which raises IndexError when there is none
InitialiseRaises(rows) == \A i \in 1..Len(rows) : rows[i].parentid # -1

\* main.py 371: the message shown when create_database reaches its last line
ShownMessage(finished_okay) == SuccessMessage

\* main.py 363-371: scrapper.exec() returns when a slot of a terminal signal
\* has closed the dialog
CreateDatabaseEnds ==
  /\ guipc = "closed"
  /\ mainwin.pc = "exec"
  /\ mainwin' =
       IF gui.finished_okay /\ InitialiseRaises(committed)
       THEN [pc |-> "raised", repo |-> ActiveRepo(gui.finished_okay, mainwin.repo),
             message |-> mainwin.message]
       ELSE [pc |-> "returned", repo |-> ActiveRepo(gui.finished_okay, mainwin.repo),
             message |-> ShownMessage(gui.finished_okay)]
  /\ UNCHANGED <<config, pc, interruption, cancelled, gui, delivered, guipc, sigterm>>
  /\ UNCHANGED workerVars

Next ==
  \/ WorkBegin
  \/ PopAndList
  \/ LoopExit
  \/ WorkEnd
  \/ FirstAttemptReturns
  \/ RetryAttemptReturns
  \/ Deliver
  \/ StopThreadKill
  \/ RequestInterruption
  \/ WaitReturns
  \/ CreateDatabaseEnds

Spec == Init /\ [][Next]_vars

(***************************************************************************)
(* populate_db on its own: batches of paths folded into one id_mapping.    *)
(***************************************************************************)
\* the paths the batches of SpecFold are made of
FoldPathSet ==
  { <<"a", "/">>, <<"a", "/", "b">>, <<"a", "/", "c", "/">>,
    <<"a", "/", "c", "/", "d">>, <<"a">>, <<"b", "/", "a">> }

\* the batches: one or two paths
FoldBatches ==
  {<<p>> : p \in FoldPathSet} \cup {<<p, q>> : p \in FoldPathSet, q \in FoldPathSet}

InitFold ==
  /\ config = [max_tries |-> [kind |-> "int", val |-> 1], max_level |-> 0, tree |-> TreeEmpty]
  /\ pc = "fold"
  /\ stack = <<>>
  /\ id_mapping = <<>>
  /\ first = TRUE
  /\ cur = [url |-> <<>>, level |-> 0]
  /\ tries_count = 0
  /\ err_mssg = {}
  /\ output = <<>>
  /\ proc = NoProc
  /\ nextPid = 1
  /\ pending = <<>>
  /\ committed = <<>>
  /\ emitted = <<>>
  /\ interruption = FALSE
  /\ gui = [pid |-> 0, thread_running |-> "None", finished_okay |-> FALSE,
            finished_on_error |-> FALSE, finished_by_user |-> FALSE]
  /\ delivered = 0
  /\ guipc = "open"
  /\ batches = <<>>
  /\ folded = <<>>
  /\ call = NoCall
  /\ cancelled = FALSE
  /\ sigterm = NoSigterm
  /\ mainwin = [pc |-> "exec", repo |-> "old", message |-> <<>>]

\* id_mapping = populate_db(output, id_mapping, cursor)
FoldBatch ==
  /\ pc = "fold"
  /\ Len(batches) < MaxBatches
  /\ \E batch \in FoldBatches :
       LET f == PopulateDb(batch, id_mapping, -1)
       IN /\ Len(Concat(folded)) + Len(batch) <= MaxFolded
          /\ id_mapping' = f.mapping
          /\ pending' = pending \o f.rows
          /\ batches' = Append(batches, f.rows)
          /\ folded' = Append(folded, batch)
  /\ UNCHANGED <<config, pc, stack, first, cur, tries_count, err_mssg, output, proc,
                 nextPid, committed, emitted, interruption, cancelled, call>>
  /\ UNCHANGED guiVars

NextFold == FoldBatch

SpecFold == InitFold /\ [][NextFold]_vars

(***************************************************************************)
(* Properties.                                                             *)
(***************************************************************************)
\* every row inserted so far, in insertion order
Inserts == Concat(batches)

\* the terminal signals emitted so far
Terminals == {i \in 1..Len(emitted) : emitted[i].sig \in TerminalSignals}

Failed == \E i \in Terminals : emitted[i].sig = "error_during_task"

\* C1: over any sequence of batches folded into one id_mapping, no two
\* inserts are made for the same prefix key, and the parentid of every
\* inserted row is -1 or the id of a row inserted strictly earlier.
C1_UniqueKeysParentsEarlier ==
  /\ \A i, j \in 1..Len(Inserts) : i # j => Inserts[i].key # Inserts[j].key
  /\ \A j \in 1..Len(Inserts) :
       \/ Inserts[j].parentid = -1
       \/ \E i \in 1..(j - 1) : Inserts[i].id = Inserts[j].parentid

\* C1 witness: three batches; the second inserts a child of a row of the
\* first, the third only re-presents known paths and inserts nothing.
C1_Witness ==
  /\ Len(batches) = 3
  /\ batches[1] # <<>> /\ batches[2] # <<>> /\ batches[3] = <<>>
  /\ batches[2][1].parentid = batches[1][1].id

\* C2: the ids assigned across populate_db calls that share one id_mapping
\* are 1, 2, 3, ... in insertion order: no id is reused and none is skipped,
\* also across batch boundaries.
C2_IdsConsecutiveFromOne ==
  \A i \in 1..Len(Inserts) : Inserts[i].id = i

\* C2 witness: two batches that both insert, after one that inserts nothing new
C2_Witness ==
  /\ Len(batches) = 3
  /\ batches[1] # <<>> /\ batches[2] = <<>> /\ batches[3] # <<>>
  /\ batches[3][1].id = Len(batches[1]) + 1

\* C3: a node created for a segment that is not the last of its path is a
\* folder, so no row that is the parent of another row is recorded as a file.
C3_ParentsAreFolders ==
  \A i, j \in 1..Len(Inserts) :
    Inserts[j].parentid = Inserts[i].id => Inserts[i].isfile = 0

\* C4: when the first attempt of a listing call fails with a transient marker
\* and retry k (k <= max_tries) ends without error, svn_list makes no further
\* attempt and returns: it neither retries again nor raises RetryExhausted.
C4_CleanRetryEndsTheCall ==
  (/\ config.max_tries.kind = "int"
   /\ call.cleanAt > 1
   /\ call.cleanAt - 1 <= config.max_tries.val)
    => (call.started = call.cleanAt /\ call.result = "returned")

\* C5: with max_tries an int N > 0, a listing call never runs more than N + 1
\* processes; RetryExhausted is raised after exactly N retries and names N;
\* and a call all of whose attempts failed with a transient marker ends with
\* RetryExhausted.
C5_ExactlyMaxTriesRetries ==
  config.max_tries.kind = "int" =>
    /\ call.started <= config.max_tries.val + 1
    /\ call.result = "RetryExhausted" =>
         (call.started = config.max_tries.val + 1 /\ call.bound = config.max_tries.val)
    /\ (/\ call.result \notin {"none", "pending"}
        /\ call.allTransient
        /\ Classify(call.firstErr, call.first) = "none")
         => call.result = "RetryExhausted"

\* C5 witness: max_tries = 2, three attempts that all failed with a transient
\* marker, then RetryExhausted
C5_Witness ==
  /\ config.max_tries = [kind |-> "int", val |-> 2]
  /\ call.allTransient
  /\ call.started = 3
  /\ call.result = "RetryExhausted"
  /\ Failed

FatalMarkers == {"E160006", "E200009", "E170000"}

\* C6: a listing call whose error stream holds E160006, E200009 or E170000
\* raises its fatal error after one process and no retry, whatever else the
\* error stream holds, and the crawl fails.
C6_FatalMarkerNoRetry ==
  call.firstErr \cap FatalMarkers # {} =>
    /\ call.started = 1
    /\ call.result \in {"InvalidRevision", "PathNotFound", "InvalidUrl"}
    /\ pc = "done" /\ Failed

\* C6 witness: an error stream with a fatal and a transient marker
C6_Witness ==
  /\ call.firstErr = {"E200009", "E175012"}
  /\ call.result = "PathNotFound"
  /\ call.started = 1

\* C7: a listing call whose error stream holds an error that matches none of
\* the recognised markers does not return a listing: the error is raised.
C7_UnknownErrorIsRaised ==
  (/\ call.firstErr # {}
   /\ call.firstErr \cap FatalMarkers = {}
   /\ ~IsTransient(call.firstErr))
    => call.result # "returned"

\* C8: when cancellation was requested while work() was running, the terminal
\* signal is user_interrupted, never error_during_task.
C8_CancelledNeverFailed ==
  (cancelled /\ pc = "done") =>
    \A i \in Terminals : emitted[i].sig = "user_interrupted"

\* C9: the committed rows are at all times the rows of the first k batches,
\* whole, for some k: no batch is committed in part.
C9_CommittedIsWholeBatches ==
  \E k \in 0..Len(batches) : committed = Concat(SubSeq(batches, 1, k))

\* C9 witness: a fold that raised after inserting a row of its batch, in a
\* crawl that had committed a batch before
C9_Witness ==
  /\ pc = "done"
  /\ pending # <<>>
  /\ \E i \in Terminals : emitted[i].arg = "SinkError"
  /\ Len(batches) = 2
  /\ Len(batches[2]) >= 2
  /\ committed = batches[1]
  /\ committed # <<>>

\* C10: work() emits one terminal signal (finished, error_during_task or
\* user_interrupted), none before it ends, and no add_item_list or
\* broadcast_pid after it.
C10_OneTerminalSignalLast ==
  /\ Cardinality(Terminals) <= 1
  /\ pc = "done" <=> Cardinality(Terminals) = 1
  /\ \A i \in Terminals : \A j \in (i + 1)..Len(emitted) :
       emitted[j].sig \notin {"add_item_list", "broadcast_pid"}

\* C10 witness: a crawl that was cancelled during a retry and ended with
\* an exception
C10_Witness ==
  /\ pc = "done"
  /\ cancelled
  /\ call.started >= 2
  /\ Failed

\* the errors svn_list raises for a failed listing
FatalListingErrors ==
  {"InvalidRevision", "PathNotFound", "InvalidUrl", "FirstCallCombo", "RetryExhausted"}

\* C11: once a listing call has ended with a fatal error (a fatal marker, the
\* first-call combination or RetryExhausted) work() has ended with
\* error_during_task, every batch folded before is committed, and from then
\* on nothing is popped, no process is started, nothing is inserted and the
\* committed rows stay as they are.
C11_FatalListingStopsCrawl ==
  /\ [](call.result \in FatalListingErrors =>
         (pc = "done" /\ Failed /\ proc = NoProc /\ committed = Concat(batches)))
  /\ [][call.result \in FatalListingErrors =>
         UNCHANGED <<pc, stack, cur, nextPid, proc, id_mapping, batches, folded, pending,
                     committed, call>>]_vars

\* C11 witness: RetryExhausted for the listing of a subdirectory, after the
\* batch of the root was committed and with an item left on the stack; the
\* dialog has run the slot of the error signal since
C11_Witness ==
  /\ call.result = "RetryExhausted"
  /\ call.url # RepoUrl
  /\ stack # <<>>
  /\ committed # <<>>
  /\ gui.finished_on_error

RECURSIVE PrefixKey(_, _)
\* the key of the first i parts of a path
PrefixKey(parts, i) ==
  IF i = 1 THEN parts[1] ELSE PrefixKey(parts, i - 1) \o <<SLASH>> \o parts[i]

\* the kind of part i of a path: the last part of a path without a trailing
\* separator is a file, every other part a folder
KindOfPart(path, i) == IF i = Len(PathParts(path)) THEN IsFileOf(path) ELSE 0

\* a part of the path is recorded in the mapping with the other kind
KindContradiction(mapping, path) ==
  \E i \in 1..Len(PathParts(path)) :
    LET key == PrefixKey(PathParts(path), i)
    IN InMapping(mapping, key) /\ Lookup(mapping, key).isfile # KindOfPart(path, i)

\* C12: folding a path one of whose parts is recorded in id_mapping with the
\* other kind (file "a" after folder "a/", or "a/b" after file "a") raises:
\* the contradiction is never accepted silently.
C12_KindContradictionRaises ==
  \A path \in FoldPathSet :
    KindContradiction(id_mapping, path) => PopulateDb(<<path>>, id_mapping, -1).raised

\* the listing calls made so far: one add_item_list(url) per popped item
ListingCalls ==
  Cardinality({i \in 1..Len(emitted) :
                 emitted[i].sig = "add_item_list" /\ emitted[i].arg # RetryNotice})

\* C13: a listing call whose first attempt fails with both E731001 and
\* E170013 (and no fatal marker) raises at once, without a retry, when it is
\* the first listing call of the crawl; any later call of the crawl retries.
C13_ComboFatalOnFirstCallOnly ==
  ({"E731001", "E170013"} \subseteq call.firstErr /\ call.firstErr \cap FatalMarkers = {})
    => IF ListingCalls = 1
       THEN call.result = "FirstCallCombo" /\ call.started = 1 /\ pc = "done" /\ Failed
       ELSE call.result # "FirstCallCombo" /\ call.started >= 2

\* C13 witness: the second listing call of a crawl fails with both markers
\* and is retried
C13_Witness ==
  /\ call.firstErr = {"E731001", "E170013"}
  /\ ListingCalls = 2
  /\ ~call.first
  /\ call.started >= 2
  /\ pc = "communicate_retry"

\* the rows of the table as INSERT writes them: id, parentid, isfile, value
TableRows(rows) ==
  [i \in 1..Len(rows) |-> [id |-> rows[i].id, parentid |-> rows[i].parentid,
                           isfile |-> rows[i].isfile, value |-> rows[i].value]]

\* a/, a/b, a/c/, a/c/d
FourPaths ==
  << <<"a", "/">>, <<"a", "/", "b">>, <<"a", "/", "c", "/">>, <<"a", "/", "c", "/", "d">> >>

\* C14: folding a/, a/b, a/c/, a/c/d in this order into an empty id_mapping
\* inserts four rows: a (folder, parent -1), b (file, parent a), c (folder,
\* parent a) and d (file, parent c), with the ids 1, 2, 3, 4.
C14_FourPathsFourNodes ==
  Concat(folded) = FourPaths =>
    TableRows(Inserts) =
      << [id |-> 1, parentid |-> -1, isfile |-> 0, value |-> <<"a">>],
         [id |-> 2, parentid |-> 1, isfile |-> 1, value |-> <<"b">>],
         [id |-> 3, parentid |-> 1, isfile |-> 0, value |-> <<"c">>],
         [id |-> 4, parentid |-> 3, isfile |-> 1, value |-> <<"d">>] >>

\* C14 witness: the four paths were folded, two per populate_db call
C14_Witness ==
  /\ Concat(folded) = FourPaths
  /\ Len(folded) = 2
  /\ Len(Inserts) = 4
  /\ Len(id_mapping) = 4

\* the prefix keys of the paths of FoldPathSet
PrefixKeys ==
  [path \in FoldPathSet |->
     {PrefixKey(PathParts(path), i) : i \in 1..Len(PathParts(path))}]

\* the keys of a mapping
KeysOf(mapping) == {mapping[i].key : i \in 1..Len(mapping)}

\* C15: folding a path all of whose prefix keys are in id_mapping inserts no
\* row, assigns no id and leaves id_mapping as it is, whether the keys come
\* from an earlier populate_db call or from an earlier path of the same call.
\* Stated of every batch of one or two paths that may be folded next, and of
\* every call made so far that was handed only paths handed over before.
C15_KnownPathFoldsToNothing ==
  /\ Len(Concat(folded)) + 1 <= MaxFolded =>
       \A path \in FoldPathSet :
         PrefixKeys[path] \subseteq KeysOf(id_mapping) =>
           \A f \in {PopulateDb(<<path>>, id_mapping, -1)} :
             f.rows = <<>> /\ f.mapping = id_mapping /\ f.current_id = FirstId(id_mapping)
  /\ Len(Concat(folded)) + 2 <= MaxFolded =>
       \A earlier \in FoldPathSet :
         \A f1 \in {PopulateDb(<<earlier>>, id_mapping, -1)} :
           \A keys \in {KeysOf(f1.mapping)} :
             \A path \in FoldPathSet :
               PrefixKeys[path] \subseteq keys =>
                 \A f2 \in {PopulateDb(<<earlier, path>>, id_mapping, -1)} :
                   f2.rows = f1.rows /\ f2.mapping = f1.mapping
                     /\ f2.current_id = f1.current_id
  /\ \A k \in 1..Len(folded) :
       (\A i \in 1..Len(folded[k]) :
          \E j \in 1..(k - 1) : \E h \in 1..Len(folded[j]) : folded[j][h] = folded[k][i])
         => batches[k] = <<>>

\* C15 witness: a populate_db call all of whose paths were known, one of them
\* folded before with the other kind; it inserted nothing
C15_Witness ==
  /\ Len(folded) = 2
  /\ folded[1] = << <<"a", "/">>, <<"a", "/", "b">> >>
  /\ folded[2] = << <<"a", "/", "b">>, <<"a">> >>
  /\ batches[2] = <<>>
  /\ Len(id_mapping) = 2

\* the listing lines of a payload: the text between line ends (CR LF)
LinesOf(payload) ==
  LET pieces == SplitCRLF(payload)
  IN IF pieces # <<>> /\ LastChar(pieces) = <<>> THEN DropLast(pieces) ELSE pieces

\* how often x occurs in the sequence
Count(seq, x) == Cardinality({i \in 1..Len(seq) : seq[i] = x})

\* the sequences hold the same elements, each as often
SameElements(s, t) ==
  /\ Len(s) = Len(t)
  /\ \A i \in 1..Len(s) : Count(s, s[i]) = Count(t, s[i])

\* no file entry stands before a folder entry
FoldersFirst(items) ==
  \A i, j \in 1..Len(items) :
    (i < j /\ EndsWithSlash(items[j])) => EndsWithSlash(items[i])

\* C17: for every non-empty payload fix_output returns one element per
\* listing line: the lines, each behind one common prefix, in an order that
\* has every folder entry before every file entry.
C17_FixOutputPermutesLines ==
  output # <<>> =>
    \A r \in {FixOutput(cur.url, output)} :
      /\ ~r.raised
      /\ Len(r.items) = Len(LinesOf(output))
      /\ \E k \in 0..Len(cur.url) :
           /\ \A i \in 1..Len(r.items) :
                Len(r.items[i]) > k /\ SubSeq(r.items[i], 1, k) = SubSeq(r.items[1], 1, k)
           /\ SameElements([i \in 1..Len(r.items) |->
                              SubSeq(r.items[i], k + 1, Len(r.items[i]))],
                           LinesOf(output))
      /\ FoldersFirst(r.items)

\* where the root marker first occurs in the url (1-based)
RootMarkerAt(url) ==
  CHOOSE k \in 1..Len(url) :
    /\ IsPrefix(RootFolder, SubSeq(url, k, Len(url)))
    /\ \A h \in 1..(k - 1) : ~IsPrefix(RootFolder, SubSeq(url, h, Len(url)))

\* the url from its root marker on, and the url behind its root marker segment
FromRootMarker(url) == SubSeq(url, RootMarkerAt(url), Len(url))
BehindRootMarker(url) ==
  SubSeq(url, RootMarkerAt(url) + Len(RootFolder) + 1, Len(url))

RootSegment == RootFolder \o <<SLASH>>

\* C18, as claimed: every entry fix_output returns for a listing of url is
\* the url behind its root marker segment followed by a line, so that no
\* entry handed to populate_db for the repository root starts with the root
\* marker segment.
C18_PrefixDropsRootMarker ==
  /\ (output # <<>> /\ cur.url # <<>>) =>
       \A r \in {FixOutput(cur.url, output)} :
         \A i \in 1..Len(r.items) : IsPrefix(BehindRootMarker(cur.url), r.items[i])
                                     /\ (cur.url = RepoUrl => ~IsPrefix(RootSegment, r.items[i]))
  /\ folded # <<>> => \A i \in 1..Len(folded[1]) : ~IsPrefix(RootSegment, folded[1][i])

\* C18, amended: every entry fix_output returns for a listing of url is the
\* url from the first occurrence of the root marker on (the marker kept)
\* followed by a line, so that every entry handed to populate_db, those of
\* the repository root too, starts with the root marker segment.
C18_PrefixStartsAtRootMarker ==
  /\ (output # <<>> /\ cur.url # <<>>) =>
       \A r \in {FixOutput(cur.url, output)} :
         \A i \in 1..Len(r.items) :
           /\ IsPrefix(FromRootMarker(cur.url), r.items[i])
           /\ Len(r.items[i]) > Len(FromRootMarker(cur.url))
  /\ \A k \in 1..Len(folded) : \A i \in 1..Len(folded[k]) :
       IsPrefix(RootSegment, folded[k][i])

\* C18 witness: the listings of the root and of a subdirectory were folded
C18_Witness ==
  /\ Len(folded) = 2
  /\ cur.url = RepoUrl \o <<"c", "/">>
  /\ folded[1] = << RootSegment \o <<"a", "/">>, RootSegment \o <<"c", "/">> >>
  /\ folded[2] = << RootSegment \o <<"c", "/", "d">> >>

\* the listing call made last has ended, its process without an error and
\* with an empty payload
EndedEmpty ==
  call.result \notin {"none", "pending"} /\ call.firstErr = {} /\ output = <<>>

\* C19: an empty payload is no error.  fix_output returns the empty list for
\* it and svn_list returns; the step in which it returns pushes nothing,
\* folds and commits nothing, emits nothing and leaves the worker at the
\* head of its loop with the stack as it was; no error signal follows.
C19_EmptyListingIsSkipped ==
  /\ [](EndedEmpty =>
          /\ FixOutput(call.url, output) = [raised |-> FALSE, kind |-> "list", items |-> <<>>]
          /\ call.result = "returned"
          /\ ~Failed)
  /\ [][(call.result = "pending" /\ EndedEmpty') =>
          /\ pc' = "loop"
          /\ UNCHANGED <<stack, id_mapping, batches, folded, pending, committed, emitted>>]_vars

\* C19 witness: the first of two sibling folders was listed and is empty;
\* the worker is back at the head of the loop with the second on the stack
C19_Witness ==
  /\ EndedEmpty
  /\ call.url = RepoUrl \o <<"a", "/">>
  /\ call.firstErr = {}
  /\ pc = "loop"
  /\ stack = <<[url |-> RepoUrl \o <<"c", "/">>, level |-> 1]>>
  /\ ~interruption

\* the folder entries of a list of paths
FolderEntries(items) == SelectSeq(items, EndsWithSlash)

\* C20: the listing of a popped item (url, level) is recursive exactly when
\* level >= max_level; when the call returns a recursive listing nothing is
\* pushed, and when it returns a shallow listing every folder entry of it is
\* pushed, one level deeper.
C20_RecursiveFromMaxLevelPushWhenShallow ==
  /\ [](call.started >= 1 =>
          /\ call.url = cur.url
          /\ call.recursive <=> cur.level >= config.max_level)
  /\ [][(call.result = "pending" /\ call'.result = "returned") =>
          IF Len(folded') = Len(folded) THEN stack' = stack
          ELSE LET dirs == FolderEntries(folded'[Len(folded')])
                   pushed == SubSeq(stack', Len(stack) + 1, Len(stack'))
               IN /\ SubSeq(stack', 1, Len(stack)) = stack
                  /\ pushed # <<>> <=> (cur.level < config.max_level /\ dirs # <<>>)
                  /\ cur.level < config.max_level =>
                       /\ Len(pushed) = Len(dirs)
                       /\ \A i \in 1..Len(dirs) :
                            \E j \in 1..Len(pushed) :
                              /\ IsPrefix(RepoUrl, pushed[j].url)
                              /\ SubSeq(pushed[j].url, RootMarkerAt(RepoUrl), Len(pushed[j].url))
                                   = dirs[i]
                              /\ pushed[j].level = cur.level + 1]_vars

\* C20 witness: max_level 1; the root was listed shallow and its folder
\* pushed, the folder was listed recursively, and the folder entry of that
\* listing was not pushed
C20_Witness ==
  /\ config.max_level = 1
  /\ cur.level = 1
  /\ call.recursive
  /\ call.result = "returned"
  /\ Len(folded) = 2
  /\ FolderEntries(folded[1]) # <<>>
  /\ FolderEntries(folded[2]) # <<>>
  /\ stack = <<>>

\* the urls reported with add_item_list, in order: one per popped item
Visited ==
  LET reports == SelectSeq(emitted, LAMBDA e : e.sig = "add_item_list" /\ e.arg # RetryNotice)
  IN [i \in 1..Len(reports) |-> reports[i].arg]

RECURSIVE StripSegment(_)
\* the text up to and including its last separator
StripSegment(s) ==
  IF s = <<>> \/ LastChar(s) = SLASH THEN s ELSE StripSegment(DropLast(s))

\* the url of the directory that holds the directory url
ParentUrl(url) == StripSegment(DropLast(url))

\* directory v lies in the subtree below directory u
Below(u, v) == IsPrefix(u, v) /\ u # v

\* the entry of a listing that stands for the directory url
EntryOf(url) == SubSeq(url, RootMarkerAt(RepoUrl), Len(url))

\* C21: the directories are visited depth-first in pre-order over the
\* normalized listings: a directory is visited after its parent, whatever is
\* visited between a directory and one of its descendants is a descendant
\* of it too, and two children of one directory are visited in the order
\* in which the listing of that directory, as fix_output returned it, has them.
C21_DepthFirstPreOrder ==
  \A v \in {Visited} :
    /\ \A j \in 2..Len(v) : \E i \in 1..(j - 1) : v[i] = ParentUrl(v[j])
    /\ \A i, j, k \in 1..Len(v) :
         (i < j /\ j < k /\ Below(v[i], v[k])) => Below(v[i], v[j])
    /\ \A i, j \in 1..Len(v) :
         (i < j /\ ParentUrl(v[i]) = ParentUrl(v[j])) =>
           \E b \in 1..Len(folded) : \E p, q \in 1..Len(folded[b]) :
             /\ p < q
             /\ folded[b][p] = EntryOf(v[i])
             /\ folded[b][q] = EntryOf(v[j])

\* C21 witness: a/ and c/ are the folders of the root and b/ the folder of
\* a/; the visits are root, a/, a/b/, c/
C21_Witness ==
  Visited = << RepoUrl, RepoUrl \o <<"a", "/">>, RepoUrl \o <<"a", "/", "b", "/">>,
               RepoUrl \o <<"c", "/">> >>

\* C22: with max_tries as load_config loads it (the str of the configured
\* number) a listing call whose attempts keep failing with a transient
\* marker leaves the retry loop after max_tries retries, with
\* RetryExhausted and the crawl failed: it never starts more than
\* max_tries + 1 processes, and after the last of them it has ended.
C22_ConfiguredMaxTriesEndsRetries ==
  config.max_tries.kind = "str" =>
    /\ call.started <= config.max_tries.val + 1
    /\ (call.started = config.max_tries.val + 1 /\ call.firstErr # {}
         /\ pc \notin {"communicate", "communicate_retry"})
          => (call.result = "RetryExhausted" /\ Failed)

\* C23: once an interruption is requested no item is popped: no url is
\* reported, no listing is folded and the stack stays as it is (work() may
\* still begin and set the stack up, to leave the loop at once); when work()
\* has ended the items of the stack are still there.
C23_NoPopAfterCancel ==
  [][interruption =>
       /\ Visited' = Visited
       /\ folded' = folded
       /\ stack' = stack \/ (pc = "start" /\ pc' = "loop")]_vars

\* C23 witness: the request came while items were on the stack; work() has
\* ended with user_interrupted and the items are still on the stack
C23_Witness ==
  /\ pc = "done"
  /\ cancelled
  /\ Len(stack) = 2
  /\ Visited = <<RepoUrl>>
  /\ \E i \in Terminals : emitted[i].sig = "user_interrupted"

\* C24: once an interruption is requested the retry loop of a listing call
\* starts no further attempt: no svn process is started from then on.
C24_NoAttemptAfterCancel ==
  [][interruption => (nextPid' = nextPid /\ call'.started <= call.started)]_vars

\* the pids broadcast so far, in order
BroadcastPids ==
  LET bs == SelectSeq(emitted, LAMBDA e : e.sig = "broadcast_pid")
  IN [i \in 1..Len(bs) |-> bs[i].arg]

\* C25: every svn process, of a first attempt or of a retry, has its pid
\* broadcast before the worker waits for it: the pids broadcast are those of
\* the processes started, in the order of their start, and while the worker
\* waits for a process the pid broadcast last is the pid of that process.
C25_PidBroadcastBeforeWait ==
  /\ BroadcastPids = [i \in 1..(nextPid - 1) |-> i]
  /\ pc \in {"communicate", "communicate_retry"} =>
       /\ proc.pid = nextPid - 1
       /\ BroadcastPids[Len(BroadcastPids)] = proc.pid

\* C25 witness: the worker waits for the second retry of the second call
C25_Witness ==
  /\ pc = "communicate_retry"
  /\ call.started = 3
  /\ Len(Visited) = 2
  /\ proc.pid = 4
  /\ BroadcastPids = <<1, 2, 3, 4>>

\* C26: the step that pops an item emits one add_item_list with the url of
\* that item, before the pid of the listing's process is broadcast, and no
\* other step reports a url: the urls reported are the items popped, in order.
C26_OneReportPerPop ==
  [][IF Len(stack') < Len(stack)
     THEN /\ stack' = DropLast(stack)
          /\ Visited' = Append(Visited, LastChar(stack).url)
          /\ Len(emitted') = Len(emitted) + 2
          /\ emitted'[Len(emitted) + 1] = Sig("add_item_list", LastChar(stack).url)
          /\ emitted'[Len(emitted) + 2].sig = "broadcast_pid"
          /\ call'.url = LastChar(stack).url /\ call'.started = 1
     ELSE Visited' = Visited]_vars

\* C26 witness: three items were popped, the second listing was retried
\* (the retry notice is reported too, it carries no url)
C26_Witness ==
  /\ Len(Visited) = 3
  /\ \E i \in 1..Len(emitted) :
       emitted[i].sig = "add_item_list" /\ emitted[i].arg = RetryNotice
  /\ Cardinality({i \in 1..Len(emitted) : emitted[i].sig = "add_item_list"}) > 3

\* C27: id_mapping is empty until the first listing is folded, and every
\* step keeps it or extends it: no key is removed, no entry of a key is
\* changed, and no key is recorded twice.
C27_IdMappingGrowsOnly ==
  /\ [](Len(folded) = 0 => id_mapping = <<>>)
  /\ [][/\ IsPrefix(id_mapping, id_mapping')
         /\ \A i, j \in 1..Len(id_mapping') :
              id_mapping'[i].key = id_mapping'[j].key => i = j]_vars

\* C27 witness: three listings were folded, the third of them added a key
C27_Witness ==
  /\ Len(folded) = 3
  /\ Len(batches[1]) > 0 /\ Len(batches[2]) > 0 /\ Len(batches[3]) > 0
  /\ Len(id_mapping) = Len(Inserts)

Finished == \E i \in Terminals : emitted[i].sig = "finished"

\* C28: when work() has emitted finished, the stack is empty, the listing
\* call of every popped item has returned, and every row inserted is
\* committed: finished is never emitted for a crawl that left items on the
\* stack, whenever the interruption was requested.
C28_FinishedMeansStackEmpty ==
  Finished =>
    /\ stack = <<>>
    /\ pending = <<>>
    /\ committed = Inserts
    /\ call.result \in {"none", "returned"}

\* C28 witness: all four directories of a tree were visited and work() has
\* emitted finished; the interruption was requested after that
C28_Witness ==
  /\ Finished
  /\ Len(Visited) = 4
  /\ committed # <<>>
  /\ interruption

\* the text behind the last separator of a key
LastSegment(key) == SubSeq(key, Len(StripSegment(key)) + 1, Len(key))

\* the committed rows inserted for a key
RowsOfKey(key) == {i \in 1..Len(committed) : committed[i].key = key}

\* the worker stands behind a commit of generate_database (line 112 or 114)
\* or at the head of the loop before any
BehindCommit == pc \in {"loop", "epilogue"}

\* C29: behind every commit of the loop, each key of id_mapping has exactly
\* one committed row, which carries the id, parent id and isfile of the
\* entry and the last segment of the key as its value, and every committed
\* row was inserted for a key of id_mapping.
C29_IdMappingAgreesWithStore ==
  BehindCommit =>
    /\ \A k \in 1..Len(id_mapping) :
         LET e == id_mapping[k]
         IN /\ Cardinality(RowsOfKey(e.key)) = 1
            /\ \A i \in RowsOfKey(e.key) :
                 /\ committed[i].id = e.id
                 /\ committed[i].parentid = e.parent
                 /\ committed[i].isfile = e.isfile
                 /\ committed[i].value = LastSegment(e.key)
    /\ \A i \in 1..Len(committed) : InMapping(id_mapping, committed[i].key)

\* C29 witness: three listings were folded and committed, the last one
\* bringing a path below a directory recorded earlier
C29_Witness ==
  /\ pc = "loop"
  /\ Len(folded) = 3
  /\ Len(committed) >= 4
  /\ Len(committed) = Len(id_mapping)
  /\ \E i \in 1..Len(committed) : committed[i].parentid > 1

\* C30: every item on the stack has a level in 0..max_level, and so has the
\* item of every listing call; only the start of the crawl and the return of
\* a shallow listing (level < max_level) make the stack grow; and with
\* max_level = 0 there is at most one listing call, it is recursive, and a
\* crawl that was not cancelled ends with exactly one.
C30_LevelsWithinMaxLevel ==
  /\ [](/\ \A i \in 1..Len(stack) : stack[i].level \in 0..config.max_level
        /\ call.started >= 1 => cur.level \in 0..config.max_level
        /\ config.max_level = 0 =>
             /\ ListingCalls <= 1
             /\ call.started >= 1 => call.recursive /\ cur.level = 0
             /\ (pc \in {"epilogue", "done"} /\ ~cancelled) => ListingCalls = 1)
  /\ [][Len(stack') > Len(stack) =>
          \/ pc = "start"
          \/ ~call.recursive /\ cur.level < config.max_level]_vars

\* C30 witness: with max_level = 2 a directory of level 2 was listed
\* recursively and the call has returned, while a directory of level 1 is
\* still on the stack
C30_Witness ==
  /\ config.max_level = 2
  /\ cur.level = 2
  /\ call.recursive
  /\ call.result = "returned"
  /\ stack # <<>>
  /\ \A i \in 1..Len(stack) : stack[i].level = 1

\* the urls of the directories of the remote tree, the root among them
RemoteDirs(tree) ==
  {RepoUrl} \cup {RepoUrl \o tree[i] : i \in {k \in 1..Len(tree) : EndsWithSlash(tree[k])}}

\* the depth of a remote directory below the root: its number of segments
DepthOf(url) ==
  Cardinality({i \in (Len(RepoUrl) + 1)..Len(url) : url[i] = SLASH})

\* the items popped so far and the items on the stack, as urls
SeenUrls == Visited \o [i \in 1..Len(stack) |-> stack[i].url]

RowsOfId(id) == {i \in 1..Len(committed) : committed[i].id = id}

RECURSIVE Spelled(_, _)
\* the names on the chain of parent links from the root row down to row i
\* (n bounds the walk)
Spelled(i, n) ==
  IF committed[i].parentid = -1 \/ n = 0 \/ RowsOfId(committed[i].parentid) = {}
  THEN <<committed[i].value>>
  ELSE Append(Spelled(CHOOSE p \in RowsOfId(committed[i].parentid) : TRUE, n - 1),
              committed[i].value)

\* the segments of a path of the remote tree, from the root marker on
SegmentsOf(entry) ==
  LET parts == SplitSlash(RootFolder \o <<SLASH>> \o entry)
  IN IF LastChar(parts) = <<>> THEN DropLast(parts) ELSE parts

\* the committed rows that stand for a path of the remote tree
NodesOf(entry) ==
  {i \in 1..Len(committed) : Spelled(i, Len(committed)) = SegmentsOf(entry)}

\* every path of the remote tree has exactly one row, of its kind
StoreComplete ==
  \A k \in 1..Len(config.tree) :
    /\ Cardinality(NodesOf(config.tree[k])) = 1
    /\ \A i \in NodesOf(config.tree[k]) : committed[i].isfile = IsFileOf(config.tree[k])

\* C32: when work() has emitted finished and no attempt of a listing call
\* ended with an error stream, every directory and every file of the remote
\* tree has exactly one committed row whose chain of parent links spells
\* its path, for every max_level.
C32_FinishedStoreComplete ==
  (Finished /\ ~call.erred) => StoreComplete

\* the same for the crawls in which stop_thread terminated no process
C32_FinishedStoreCompleteUnlessKilled ==
  (Finished /\ ~call.erred /\ sigterm # "inflight") => StoreComplete

\* C33: whenever stop_thread has called os.kill, the pid it passed is set
\* (not None) and is the pid of the svn process that was running at that
\* moment.
C33_KillTargetsInFlightPid ==
  sigterm \in {"none", "inflight"}

\* the committed rows with parentid = -1
RootRows == {i \in 1..Len(committed) : committed[i].parentid = -1}

\* C34: when work() has emitted finished, the store holds exactly one
\* committed row with parentid = -1, whatever the remote root holds.
C34_FinishedOneRootRow ==
  Finished => Cardinality(RootRows) = 1

\* the terminal signal whose slot closed the dialog
Outcome ==
  IF gui.finished_okay THEN "finished"
  ELSE IF gui.finished_on_error THEN "error_during_task"
  ELSE IF gui.finished_by_user THEN "user_interrupted"
  ELSE "none"

\* C35: the main window shows "Scraping was successful!" and makes the new
\* database its repository only when the terminal signal of the crawl was
\* finished; after user_interrupted or error_during_task it does neither.
C35_SuccessOnlyWhenFinished ==
  /\ mainwin.message = SuccessMessage => Outcome = "finished"
  /\ mainwin.repo = "new" => Outcome = "finished"

=============================================================================
